---- MODULE Spec2Model ----
(***************************************************************************)
(* URLaundry (src/src/App.tsx): the cleanUrl routine and the handleClean   *)
(* handler of the Solid component that calls it.                           *)
(*                                                                         *)
(* A string is a sequence of one-character strings, so that parsing,       *)
(* percent-encoding and serialisation are computed character by character. *)
(* The platform's URL class (new URL, URLSearchParams) is modelled after    *)
(* the WHATWG URL Standard on the strings the model draws: printable ASCII, *)
(* no backslash, no "." or ".." path segment, no IPv4/IPv6 host, no file:   *)
(* scheme, no percent-escape outside 0x20..0x7E.                            *)
(* A host label that begins with "xn--" is decoded as Punycode; the IDNA    *)
(* table the model holds covers ASCII, U+0080..U+00A0, U+00C0..U+00D6,      *)
(* U+00D8..U+00DE, U+00E0..U+00F6 and U+00F8..U+00FF, so the strings of the *)
(* model hold no such label that decodes to another code point or to ASCII  *)
(* only, and none whose only "-" after the prefix comes first.              *)
(***************************************************************************)
EXTENDS Integers, Sequences, FiniteSets, TLC

(* ------------------------------------------------------------------ *)
(* Characters and strings                                              *)
(* ------------------------------------------------------------------ *)

\* Printable ASCII, 0x20..0x7E, in code order: Ascii[i] has code 31 + i.
\* (Code 0x60 is written BACKTICK: the character itself cannot be written in a
\* string of this language.)
Ascii ==
  << " ", "!", "\"", "#", "$", "%", "&", "'", "(", ")", "*", "+", ",", "-", ".", "/",
    "0", "1", "2", "3", "4", "5", "6", "7", "8", "9", ":", ";", "<", "=", ">", "?",
    "@", "A", "B", "C", "D", "E", "F", "G", "H", "I", "J", "K", "L", "M", "N", "O",
    "P", "Q", "R", "S", "T", "U", "V", "W", "X", "Y", "Z", "[", "\\", "]", "^", "_",
    "BACKTICK", "a", "b", "c", "d", "e", "f", "g", "h", "i", "j", "k", "l", "m", "n", "o",
    "p", "q", "r", "s", "t", "u", "v", "w", "x", "y", "z", "{", "|", "}", "~" >>

LowerSeq == SubSeq(Ascii, 66, 91)
UpperSeq == SubSeq(Ascii, 34, 59)
DigitSeq == SubSeq(Ascii, 17, 26)
HexSeq == <<"0", "1", "2", "3", "4", "5", "6", "7", "8", "9", "A", "B", "C", "D", "E", "F">>

SeqRange(s) == {s[i] : i \in 1..Len(s)}

Lower == SeqRange(LowerSeq)
Upper == SeqRange(UpperSeq)
Digit == SeqRange(DigitSeq)
Alpha == Lower \cup Upper
AlphaNum == Alpha \cup Digit

IndexIn(s, c) == CHOOSE i \in 1..Len(s) : s[i] = c

CharCode(c) == 31 + IndexIn(Ascii, c)

\* String.prototype.toLowerCase on one ASCII character
ToLowerChar(c) == IF c \in Upper THEN LowerSeq[IndexIn(UpperSeq, c)] ELSE c

ToLower(s) == [i \in 1..Len(s) |-> ToLowerChar(s[i])]

\* String.prototype.startsWith / endsWith
StartsWith(s, p) == Len(s) >= Len(p) /\ SubSeq(s, 1, Len(p)) = p

EndsWith(s, p) == Len(s) >= Len(p) /\ SubSeq(s, Len(s) - Len(p) + 1, Len(s)) = p

\* The first position of s holding a character of stop, Len(s) + 1 when none does
RECURSIVE FindFrom(_, _, _)
FindFrom(s, stop, i) ==
  IF i > Len(s) \/ s[i] \in stop THEN i ELSE FindFrom(s, stop, i + 1)

FindAny(s, stop) == FindFrom(s, stop, 1)

\* The first position of s holding a character outside keep
RECURSIVE SpanFrom(_, _, _)
SpanFrom(s, keep, i) ==
  IF i > Len(s) \/ s[i] \notin keep THEN i ELSE SpanFrom(s, keep, i + 1)

Drop(s, n) == SubSeq(s, n + 1, Len(s))

\* s cut at every occurrence of the character c
RECURSIVE Split(_, _)
Split(s, c) ==
  LET k == FindAny(s, {c})
  IN IF k > Len(s) THEN <<s>>
     ELSE <<SubSeq(s, 1, k - 1)>> \o Split(Drop(s, k), c)

RECURSIVE Concat(_)
Concat(ss) == IF ss = <<>> THEN <<>> ELSE Head(ss) \o Concat(Tail(ss))

RECURSIVE Join(_, _)
Join(ss, sep) ==
  IF ss = <<>> THEN <<>>
  ELSE IF Len(ss) = 1 THEN Head(ss)
  ELSE Head(ss) \o sep \o Join(Tail(ss), sep)

\* Leading and trailing spaces removed: String.prototype.trim, and the URL
\* parser's removal of leading and trailing C0 control or space.
RECURSIVE TrimStart(_)
TrimStart(s) == IF s # <<>> /\ Head(s) = " " THEN TrimStart(Tail(s)) ELSE s

RECURSIVE TrimEnd(_)
TrimEnd(s) ==
  IF s # <<>> /\ s[Len(s)] = " " THEN TrimEnd(SubSeq(s, 1, Len(s) - 1)) ELSE s

Trim(s) == TrimEnd(TrimStart(s))

(* ------------------------------------------------------------------ *)
(* Percent-encoding (URL Standard, section 1.3)                        *)
(* ------------------------------------------------------------------ *)

LowerHexSeq == <<"a", "b", "c", "d", "e", "f">>

IsHex(c) == c \in SeqRange(HexSeq) \/ c \in SeqRange(LowerHexSeq)

HexValue(c) ==
  IF c \in SeqRange(LowerHexSeq) THEN 9 + IndexIn(LowerHexSeq, c) ELSE IndexIn(HexSeq, c) - 1

\* "%" followed by the two upper-case hexadecimal digits of a code
HexEscape(code) == <<"%", HexSeq[(code \div 16) + 1], HexSeq[(code % 16) + 1]>>

PercentEncodeChar(c) == HexEscape(CharCode(c))

\* Every character of s that is in the encode set is replaced by its escape
PercentEncode(s, encodeSet) ==
  Concat([i \in 1..Len(s) |->
            IF s[i] \in encodeSet THEN PercentEncodeChar(s[i]) ELSE <<s[i]>>])

\* The code the two hexadecimal digits after a "%" at the head of s stand for
EscapedCode(s) == 16 * HexValue(s[2]) + HexValue(s[3])

IsEscape(s) ==
  /\ s[1] = "%"
  /\ Len(s) >= 3
  /\ IsHex(s[2])
  /\ IsHex(s[3])
  /\ EscapedCode(s) \in 32..126

\* Every "%" followed by two hexadecimal digits is replaced by the character
\* of that code; any other "%" stays.
RECURSIVE PercentDecode(_)
PercentDecode(s) ==
  IF s = <<>> THEN <<>>
  ELSE IF IsEscape(s)
       THEN <<Ascii[EscapedCode(s) - 31]>> \o PercentDecode(Drop(s, 3))
       ELSE <<s[1]>> \o PercentDecode(Tail(s))

\* The percent-encode sets, restricted to printable ASCII
FragmentEncodeSet == {" ", "\"", "<", ">", "BACKTICK"}
QueryEncodeSet == {" ", "\"", "#", "<", ">"}
SpecialQueryEncodeSet == QueryEncodeSet \cup {"'"}
PathEncodeSet == QueryEncodeSet \cup {"?", "BACKTICK", "{", "}"}
UserinfoEncodeSet ==
  PathEncodeSet \cup {"/", ":", ";", "=", "@", "[", "\\", "]", "^", "|"}
\* application/x-www-form-urlencoded: everything but alphanumerics and * - . _
FormEncodeSet == SeqRange(Ascii) \ (AlphaNum \cup {"*", "-", ".", "_"})

(* ------------------------------------------------------------------ *)
(* The URL class: new URL(s) and its getters (URL Standard, 4.4 and 6.1) *)
(* ------------------------------------------------------------------ *)

\* Schemes with a tuple origin; all of them are special schemes.
SpecialSchemes == {<<"h","t","t","p">>, <<"h","t","t","p","s">>, <<"f","t","p">>, <<"w","s">>, <<"w","s","s">>}

SchemeChars == AlphaNum \cup {"+", "-", "."}

ForbiddenHostCodePoints ==
  {" ", "#", "/", ":", "<", ">", "?", "@", "[", "\\", "]", "^", "|"}

ForbiddenDomainCodePoints == ForbiddenHostCodePoints \cup {"%"}

\* What new URL(s) is when the parser rejects s (the constructor throws)
Failure == [ok |-> FALSE]

(* Domain to ASCII (URL Standard 3.5; UTS 46 processing of a label that
   begins with "xn--"): the rest of the label is decoded as Punycode
   (RFC 3492, 6.2) and the decoded label has to be a valid label. *)

\* The value of a Punycode digit: a..z are 0..25, 0..9 are 26..35; -1 for any
\* other character
PunyDigit(c) ==
  IF c \in Lower THEN IndexIn(LowerSeq, c) - 1
  ELSE IF c \in Upper THEN IndexIn(UpperSeq, c) - 1
  ELSE IF c \in Digit THEN 25 + IndexIn(DigitSeq, c)
  ELSE 0 - 1

\* The largest number the decoder computes with
PunyMaxInt == 2147483647

\* t = k <= bias ? tmin : k >= bias + tmax ? tmax : k - bias
PunyThreshold(k, bias) ==
  IF k <= bias THEN 1 ELSE IF k >= bias + 26 THEN 26 ELSE k - bias

\* Bias adaptation (RFC 3492, 6.1)
RECURSIVE PunyAdaptLoop(_, _)
PunyAdaptLoop(delta, k) ==
  IF delta > 455
  THEN PunyAdaptLoop(delta \div 35, k + 36)
  ELSE k + (36 * delta) \div (delta + 38)

PunyAdaptScaled(delta, numpoints) == PunyAdaptLoop(delta + delta \div numpoints, 0)

PunyAdapt(delta, numpoints, first) ==
  PunyAdaptScaled(IF first THEN delta \div 700 ELSE delta \div 2, numpoints)

\* One generalized variable-length integer, read from s at pos and added to
\* i with weight w: the new i and the position after it, or a failure when
\* the digits run out, a character is no digit, or the number overflows
RECURSIVE PunyInteger(_, _, _, _, _, _)

PunyDigitStep(s, pos, i, w, k, bias, digit, t) ==
  IF digit < 0 \/ digit > (PunyMaxInt - i) \div w THEN [ok |-> FALSE]
  ELSE IF digit < t THEN [ok |-> TRUE, i |-> i + digit * w, pos |-> pos + 1]
  ELSE IF w > PunyMaxInt \div (36 - t) THEN [ok |-> FALSE]
  ELSE PunyInteger(s, pos + 1, i + digit * w, w * (36 - t), k + 36, bias)

PunyInteger(s, pos, i, w, k, bias) ==
  IF pos > Len(s) THEN [ok |-> FALSE]
  ELSE PunyDigitStep(s, pos, i, w, k, bias, PunyDigit(s[pos]), PunyThreshold(k, bias))

\* out with the code point n inserted before position at
InsertAt(out, at, n) == SubSeq(out, 1, at - 1) \o <<n>> \o SubSeq(out, at, Len(out))

\* The main decoding loop: every integer read inserts one code point
RECURSIVE PunyInsertions(_, _, _, _, _, _)

PunyInsert(s, out, n, oldi, bias, r, len) ==
  IF ~r.ok THEN [ok |-> FALSE]
  ELSE IF n + r.i \div len > 1114111 THEN [ok |-> FALSE]
  ELSE PunyInsertions(s, r.pos, InsertAt(out, (r.i % len) + 1, n + r.i \div len),
                      n + r.i \div len, (r.i % len) + 1,
                      PunyAdapt(r.i - oldi, len, oldi = 0))

PunyInsertions(s, pos, out, n, i, bias) ==
  IF pos > Len(s) THEN [ok |-> TRUE, out |-> out]
  ELSE PunyInsert(s, out, n, i, bias, PunyInteger(s, pos, i, 1, 36, bias), Len(out) + 1)

\* The position of the last occurrence of c in s, 0 when there is none
LastIndexOf(s, c) ==
  IF \E i \in 1..Len(s) : s[i] = c
  THEN CHOOSE i \in 1..Len(s) : s[i] = c /\ \A j \in (i + 1)..Len(s) : s[j] # c
  ELSE 0

\* The basic code points are those before the last "-", the insertions are
\* read after it
PunyFrom(s, d) ==
  IF d >= 2
  THEN PunyInsertions(s, d + 1, [i \in 1..(d - 1) |-> CharCode(s[i])], 128, 0, 72)
  ELSE PunyInsertions(s, 1, <<>>, 128, 0, 72)

\* The code points a Punycode string stands for, or a failure
PunycodeDecode(s) == PunyFrom(s, LastIndexOf(s, "-"))

\* The validity of a decoded code point, as far as this model holds the IDNA
\* mapping table: ASCII and the lower-case letters U+00E0..U+00FF are valid;
\* the controls U+0080..U+009F, the no-break space and the upper-case letters
\* U+00C0..U+00DE are not.
IdnaValid(cp) == cp < 128 \/ (cp \in 224..255 /\ cp # 247)

\* A decoded label is valid when decoding succeeded, it holds a code point
\* that is not ASCII, and every code point is valid
DecodedLabelValid(d) ==
  /\ d.ok
  /\ \E i \in 1..Len(d.out) : d.out[i] >= 128
  /\ \A i \in 1..Len(d.out) : IdnaValid(d.out[i])

LabelValid(label) ==
  StartsWith(label, <<"x", "n", "-", "-">>) => DecodedLabelValid(PunycodeDecode(Drop(label, 4)))

LabelsValid(labels) == \A i \in 1..Len(labels) : LabelValid(labels[i])

\* The host of a special scheme from its percent-decoded, lower-cased text:
\* domain to ASCII may fail, and the result may hold no forbidden code point
DomainHost(domain) ==
  IF \/ domain = <<>>
     \/ ~LabelsValid(Split(domain, "."))
     \/ \E i \in 1..Len(domain) : domain[i] \in ForbiddenDomainCodePoints
  THEN Failure
  ELSE [ok |-> TRUE, host |-> domain]

\* The host parser: a domain (special schemes) is percent-decoded, lower-cased
\* and checked label by label, an opaque host (other schemes) is kept as
\* written.
HostParse(input, isOpaque) ==
  IF isOpaque
  THEN IF \E i \in 1..Len(input) : input[i] \in ForbiddenHostCodePoints
       THEN Failure
       ELSE [ok |-> TRUE, host |-> input]
  ELSE DomainHost(ToLower(PercentDecode(input)))

\* Path state to fragment state: what follows the authority is cut at the
\* first "#" and then at the first "?"; the query and the fragment are
\* percent-encoded with their sets.
PathQueryFragment(rest, queryEncodeSet) ==
  LET h == FindAny(rest, {"#"})
      beforeHash == SubSeq(rest, 1, h - 1)
      q == FindAny(beforeHash, {"?"})
  IN [path |-> SubSeq(beforeHash, 1, q - 1),
      hasQuery |-> q <= Len(beforeHash),
      query |-> PercentEncode(Drop(beforeHash, q), queryEncodeSet),
      hasFragment |-> h <= Len(rest),
      fragment |-> PercentEncode(Drop(rest, h), FragmentEncodeSet)]

\* The default port of a special scheme, -1 for a scheme that has none
DefaultPort(scheme) ==
  IF scheme \in {<<"h","t","t","p">>, <<"w","s">>} THEN 80
  ELSE IF scheme \in {<<"h","t","t","p","s">>, <<"w","s","s">>} THEN 443
  ELSE IF scheme = <<"f","t","p">> THEN 21
  ELSE 0 - 1

\* The largest port
MaxPort == 65535

\* The number a string of digits stands for, MaxPort + 1 for any larger one
RECURSIVE PortNumber(_, _)
PortNumber(digits, acc) ==
  IF digits = <<>> THEN acc
  ELSE IF 10 * acc + (IndexIn(DigitSeq, Head(digits)) - 1) > MaxPort THEN MaxPort + 1
  ELSE PortNumber(Tail(digits), 10 * acc + (IndexIn(DigitSeq, Head(digits)) - 1))

RECURSIVE DecimalString(_)
DecimalString(n) ==
  IF n < 10 THEN <<DigitSeq[n + 1]>>
  ELSE DecimalString(n \div 10) \o <<DigitSeq[(n % 10) + 1]>>

\* The port of a URL from its number: none (the empty string) for the
\* scheme's default port, a failure above MaxPort
PortOf(scheme, n) ==
  IF n > MaxPort THEN Failure
  ELSE IF n = DefaultPort(scheme) THEN [ok |-> TRUE, port |-> <<>>]
  ELSE [ok |-> TRUE, port |-> DecimalString(n)]

\* Port state: the text after the host's ":" holds digits only; an empty
\* text is no port
PortParse(scheme, text) ==
  IF \E i \in 1..Len(text) : text[i] \notin Digit THEN Failure
  ELSE IF text = <<>> THEN [ok |-> TRUE, port |-> <<>>]
  ELSE PortOf(scheme, PortNumber(text, 0))

\* Authority state: the credentials are what precedes the last "@" (the
\* username up to their first ":", the password after it), the host runs to
\* the first ":" after them, the port follows
AuthorityParts(auth) ==
  LET at == LastIndexOf(auth, "@")
      credentials == SubSeq(auth, 1, at - 1)
      hostport == Drop(auth, at)
      c == FindAny(hostport, {":"})
      p == FindAny(credentials, {":"})
  IN [hasAt |-> at > 0,
      username |-> PercentEncode(SubSeq(credentials, 1, p - 1), UserinfoEncodeSet),
      password |-> PercentEncode(Drop(credentials, p), UserinfoEncodeSet),
      hostText |-> SubSeq(hostport, 1, c - 1),
      hasColon |-> c <= Len(hostport),
      portText |-> Drop(hostport, c)]

AuthorityOf(p, h, port) ==
  IF ~h.ok \/ ~port.ok THEN Failure
  ELSE [ok |-> TRUE, username |-> p.username, password |-> p.password,
        host |-> h.host, port |-> port.port]

\* The host is missing when credentials or a ":" come with an empty host
AuthorityFrom(scheme, p, isOpaque) ==
  IF (p.hasAt \/ p.hasColon) /\ p.hostText = <<>> THEN Failure
  ELSE AuthorityOf(p, HostParse(p.hostText, isOpaque), PortParse(scheme, p.portText))

ParseAuthority(scheme, auth, isOpaque) == AuthorityFrom(scheme, AuthorityParts(auth), isOpaque)

\* The authority of a URL that has none
NoAuthority == [ok |-> TRUE, username |-> <<>>, password |-> <<>>, host |-> <<>>, port |-> <<>>]

MakeURL(scheme, hasHost, a, path, t) ==
  [ok |-> TRUE, scheme |-> scheme, hasHost |-> hasHost,
   username |-> a.username, password |-> a.password, host |-> a.host, port |-> a.port,
   path |-> path, hasQuery |-> t.hasQuery, query |-> t.query,
   hasFragment |-> t.hasFragment, fragment |-> t.fragment]

\* A special scheme's URL from its parsed authority and the rest: the host
\* may not be empty, an empty path is "/".
SpecialURL(scheme, a, t) ==
  IF ~a.ok THEN Failure
  ELSE MakeURL(scheme, TRUE, a,
               IF t.path = <<>> THEN <<"/">> ELSE PercentEncode(t.path, PathEncodeSet),
               t)

\* A special scheme: every "/" after the colon is skipped, the authority ends
\* at the first "/", "?" or "#".
ParseSpecial(scheme, rest) ==
  LET a == Drop(rest, SpanFrom(rest, {"/"}, 1) - 1)
      e == FindAny(a, {"/", "?", "#"})
  IN SpecialURL(scheme, ParseAuthority(scheme, SubSeq(a, 1, e - 1), FALSE),
                PathQueryFragment(Drop(a, e - 1), SpecialQueryEncodeSet))

\* Another scheme's URL with an authority: the host is opaque and may be empty
AuthorityURL(scheme, a, t) ==
  IF ~a.ok THEN Failure
  ELSE MakeURL(scheme, TRUE, a, PercentEncode(t.path, PathEncodeSet), t)

\* Another scheme's URL without authority: a path that starts with "/" is
\* percent-encoded, any other path is opaque and kept as written
PathOnlyURL(scheme, t) ==
  IF StartsWith(t.path, <<"/">>)
  THEN MakeURL(scheme, FALSE, NoAuthority, PercentEncode(t.path, PathEncodeSet), t)
  ELSE MakeURL(scheme, FALSE, NoAuthority, t.path, t)

\* Any other scheme: "//" starts an authority, anything else is a path
ParseNonSpecial(scheme, rest) ==
  IF StartsWith(rest, <<"/", "/">>)
  THEN LET e == FindAny(Drop(rest, 2), {"/", "?", "#"})
       IN AuthorityURL(scheme, ParseAuthority(scheme, SubSeq(rest, 3, e + 1), TRUE),
                       PathQueryFragment(Drop(rest, e + 1), QueryEncodeSet))
  ELSE PathOnlyURL(scheme, PathQueryFragment(rest, QueryEncodeSet))

ParseScheme(scheme, rest) ==
  IF scheme \in SpecialSchemes
  THEN ParseSpecial(scheme, rest)
  ELSE ParseNonSpecial(scheme, rest)

\* new URL(input), without a base: leading and trailing spaces are removed,
\* the scheme is an ASCII letter followed by letters, digits, "+", "-", "."
\* up to a ":" and is lower-cased; a string without one is rejected.
ParseURL(input) ==
  LET s == Trim(input)
      k == SpanFrom(s, SchemeChars, 1)
  IN IF s = <<>> \/ s[1] \notin Alpha \/ k > Len(s) \/ s[k] # ":"
     THEN Failure
     ELSE ParseScheme(ToLower(SubSeq(s, 1, k - 1)), Drop(s, k))

\* URL.hostname, URL.origin, URL.pathname, URL.hash, URL.href
Hostname(u) == IF u.hasHost THEN u.host ELSE <<>>

Pathname(u) == u.path

\* ":" and the port, when the URL has one
PortSuffix(u) == IF u.port = <<>> THEN <<>> ELSE <<":">> \o u.port

\* The serialization of a tuple origin: scheme, host and port
TupleOrigin(u) == u.scheme \o <<":","/","/">> \o u.host \o PortSuffix(u)

\* The origin of a blob: URL is that of the URL its path holds when that one
\* is an http or https URL, and opaque otherwise
BlobOrigin(pathURL) ==
  IF pathURL.ok /\ pathURL.scheme \in {<<"h","t","t","p">>, <<"h","t","t","p","s">>}
  THEN TupleOrigin(pathURL)
  ELSE <<"n","u","l","l">>

\* URL.origin: a tuple origin for the special schemes, the path's origin for
\* blob:, and "null" (an opaque origin) for every other scheme
Origin(u) ==
  IF u.scheme \in SpecialSchemes THEN TupleOrigin(u)
  ELSE IF u.scheme = <<"b","l","o","b">> THEN BlobOrigin(ParseURL(Pathname(u)))
  ELSE <<"n","u","l","l">>

Hash(u) == IF u.hasFragment /\ u.fragment # <<>> THEN <<"#">> \o u.fragment ELSE <<>>

\* The credentials as the serializer writes them before the host
Credentials(u) ==
  IF u.username = <<>> /\ u.password = <<>> THEN <<>>
  ELSE u.username \o (IF u.password = <<>> THEN <<>> ELSE <<":">> \o u.password) \o <<"@">>

Href(u) ==
  u.scheme \o <<":">>
    \o (IF u.hasHost
        THEN <<"/", "/">> \o Credentials(u) \o u.host \o PortSuffix(u)
        ELSE <<>>)
    \o u.path
    \o (IF u.hasQuery THEN <<"?">> \o u.query ELSE <<>>)
    \o (IF u.hasFragment THEN <<"#">> \o u.fragment ELSE <<>>)

\* The hash setter: an empty value removes the fragment, else a leading "#"
\* is dropped and the rest is percent-encoded as a fragment.
SetHash(u, value) ==
  IF value = <<>>
  THEN [u EXCEPT !.hasFragment = FALSE, !.fragment = <<>>]
  ELSE [u EXCEPT !.hasFragment = TRUE,
                 !.fragment = PercentEncode(IF Head(value) = "#" THEN Tail(value) ELSE value,
                                            FragmentEncodeSet)]

(* ------------------------------------------------------------------ *)
(* URLSearchParams (URL Standard, 5.1, 5.2 and 6.2)                    *)
(* ------------------------------------------------------------------ *)

PlusToSpace(s) == [i \in 1..Len(s) |-> IF s[i] = "+" THEN " " ELSE s[i]]

FormDecode(s) == PercentDecode(PlusToSpace(s))

\* The application/x-www-form-urlencoded parser: the query is cut at "&",
\* each non-empty piece at its first "=", "+" is a space, escapes are decoded.
FormParse(query) ==
  LET pieces == SelectSeq(Split(query, "&"), LAMBDA p : p # <<>>)
  IN [i \in 1..Len(pieces) |->
        LET k == FindAny(pieces[i], {"="})
        IN [name |-> FormDecode(SubSeq(pieces[i], 1, k - 1)),
            value |-> FormDecode(Drop(pieces[i], k))]]

\* URL.searchParams: the list of name-value pairs of the URL's query
SearchParams(u) == IF u.hasQuery THEN FormParse(u.query) ELSE <<>>

\* Mutant of FormEncode: a space is written as an escape, not as "+"
FormEncode_PercentSpace(s) ==
  Concat([i \in 1..Len(s) |->
            IF s[i] \in FormEncodeSet THEN PercentEncodeChar(s[i]) ELSE <<s[i]>>])

\* The serializer's encoding of a name or a value: a space is "+", every
\* other character of the encode set is an escape
FormEncode(s) ==
  Concat([i \in 1..Len(s) |->
            IF s[i] = " " THEN <<"+">>
            ELSE IF s[i] \in FormEncodeSet THEN PercentEncodeChar(s[i])
            ELSE <<s[i]>>])

\* The application/x-www-form-urlencoded serializer
FormSerialize(list) ==
  Join([i \in 1..Len(list) |->
          FormEncode(list[i].name) \o <<"=">> \o FormEncode(list[i].value)],
       <<"&">>)

\* URLSearchParams.has(name), .get(name), .size
ParamsHas(list, name) == \E i \in 1..Len(list) : list[i].name = name

\* Mutant of ParamsGet: the last value of the name instead of the first
ParamsGet_Last(list, name) ==
  list[CHOOSE i \in 1..Len(list) :
         /\ list[i].name = name
         /\ \A j \in (i + 1)..Len(list) : list[j].name # name].value

ParamsGet(list, name) ==
  list[CHOOSE i \in 1..Len(list) :
         /\ list[i].name = name
         /\ \A j \in 1..(i - 1) : list[j].name # name].value

ParamsSize(list) == Len(list)

\* URLSearchParams.set(name, value): the first pair of that name takes the
\* value and the others of that name are removed; without one, the pair is
\* appended.
ParamsSet(list, name, value) ==
  IF ParamsHas(list, name)
  THEN LET first == CHOOSE i \in 1..Len(list) :
                      /\ list[i].name = name
                      /\ \A j \in 1..(i - 1) : list[j].name # name
           idx == SelectSeq([i \in 1..Len(list) |-> i],
                            LAMBDA i : i = first \/ list[i].name # name)
       IN [n \in 1..Len(idx) |->
             IF idx[n] = first THEN [name |-> name, value |-> value] ELSE list[idx[n]]]
  ELSE Append(list, [name |-> name, value |-> value])

\* The update steps of a URL's searchParams: the URL's query becomes the
\* serialization of the list (no query when the list is empty).
WithSearchParams(u, list) ==
  [u EXCEPT !.hasQuery = (list # <<>>), !.query = FormSerialize(list)]

(* ------------------------------------------------------------------ *)
(* src/src/App.tsx: helpers                                            *)
(* ------------------------------------------------------------------ *)

isValidUrl(s) == ParseURL(s).ok

\* The domain policy table, in declaration order (Object.keys order)
importantParams ==
  <<
    \* youtube.com: v, t, list, index, start
    [domain |-> <<"y","o","u","t","u","b","e",".","c","o","m">>,
     params |-> <<<<"v">>,
                 <<"t">>,
                 <<"l","i","s","t">>,
                 <<"i","n","d","e","x">>,
                 <<"s","t","a","r","t">>>>],
    \* youtu.be: t, si
    [domain |-> <<"y","o","u","t","u",".","b","e">>,
     params |-> <<<<"t">>,
                 <<"s","i">>>>],
    \* vimeo.com: h, clip_id
    [domain |-> <<"v","i","m","e","o",".","c","o","m">>,
     params |-> <<<<"h">>,
                 <<"c","l","i","p","_","i","d">>>>],
    \* twitch.tv: video, collection, t
    [domain |-> <<"t","w","i","t","c","h",".","t","v">>,
     params |-> <<<<"v","i","d","e","o">>,
                 <<"c","o","l","l","e","c","t","i","o","n">>,
                 <<"t">>>>],
    \* dailymotion.com: video
    [domain |-> <<"d","a","i","l","y","m","o","t","i","o","n",".","c","o","m">>,
     params |-> <<<<"v","i","d","e","o">>>>],
    \* google.com: q, tbm, tbs, start, hl
    [domain |-> <<"g","o","o","g","l","e",".","c","o","m">>,
     params |-> <<<<"q">>,
                 <<"t","b","m">>,
                 <<"t","b","s">>,
                 <<"s","t","a","r","t">>,
                 <<"h","l">>>>],
    \* bing.com: q, filters, pq
    [domain |-> <<"b","i","n","g",".","c","o","m">>,
     params |-> <<<<"q">>,
                 <<"f","i","l","t","e","r","s">>,
                 <<"p","q">>>>],
    \* duckduckgo.com: q, ia, t, kp
    [domain |-> <<"d","u","c","k","d","u","c","k","g","o",".","c","o","m">>,
     params |-> <<<<"q">>,
                 <<"i","a">>,
                 <<"t">>,
                 <<"k","p">>>>],
    \* maps.google.com: q, z, ll, t, data, mapclient, mra, daddr, saddr
    [domain |-> <<"m","a","p","s",".","g","o","o","g","l","e",".","c","o","m">>,
     params |-> <<<<"q">>,
                 <<"z">>,
                 <<"l","l">>,
                 <<"t">>,
                 <<"d","a","t","a">>,
                 <<"m","a","p","c","l","i","e","n","t">>,
                 <<"m","r","a">>,
                 <<"d","a","d","d","r">>,
                 <<"s","a","d","d","r">>>>],
    \* openstreetmap.org: mlat, mlon, zoom
    [domain |-> <<"o","p","e","n","s","t","r","e","e","t","m","a","p",".","o","r","g">>,
     params |-> <<<<"m","l","a","t">>,
                 <<"m","l","o","n">>,
                 <<"z","o","o","m">>>>],
    \* amazon.com: dp, gp/product, pf_rd_r
    [domain |-> <<"a","m","a","z","o","n",".","c","o","m">>,
     params |-> <<<<"d","p">>,
                 <<"g","p","/","p","r","o","d","u","c","t">>,
                 <<"p","f","_","r","d","_","r">>>>],
    \* ebay.com: item, itm
    [domain |-> <<"e","b","a","y",".","c","o","m">>,
     params |-> <<<<"i","t","e","m">>,
                 <<"i","t","m">>>>],
    \* etsy.com: listing
    [domain |-> <<"e","t","s","y",".","c","o","m">>,
     params |-> <<<<"l","i","s","t","i","n","g">>>>],
    \* spotify.com: track, album, playlist, show, episode
    [domain |-> <<"s","p","o","t","i","f","y",".","c","o","m">>,
     params |-> <<<<"t","r","a","c","k">>,
                 <<"a","l","b","u","m">>,
                 <<"p","l","a","y","l","i","s","t">>,
                 <<"s","h","o","w">>,
                 <<"e","p","i","s","o","d","e">>>>],
    \* soundcloud.com: in, t
    [domain |-> <<"s","o","u","n","d","c","l","o","u","d",".","c","o","m">>,
     params |-> <<<<"i","n">>,
                 <<"t">>>>],
    \* netflix.com: trackId, jbv, jb
    [domain |-> <<"n","e","t","f","l","i","x",".","c","o","m">>,
     params |-> <<<<"t","r","a","c","k","I","d">>,
                 <<"j","b","v">>,
                 <<"j","b">>>>],
    \* twitter.com: status, id, q, s
    [domain |-> <<"t","w","i","t","t","e","r",".","c","o","m">>,
     params |-> <<<<"s","t","a","t","u","s">>,
                 <<"i","d">>,
                 <<"q">>,
                 <<"s">>>>],
    \* x.com: status, id, q, s
    [domain |-> <<"x",".","c","o","m">>,
     params |-> <<<<"s","t","a","t","u","s">>,
                 <<"i","d">>,
                 <<"q">>,
                 <<"s">>>>],
    \* reddit.com: sort, after, before, t, q
    [domain |-> <<"r","e","d","d","i","t",".","c","o","m">>,
     params |-> <<<<"s","o","r","t">>,
                 <<"a","f","t","e","r">>,
                 <<"b","e","f","o","r","e">>,
                 <<"t">>,
                 <<"q">>>>],
    \* linkedin.com: trackingId
    [domain |-> <<"l","i","n","k","e","d","i","n",".","c","o","m">>,
     params |-> <<<<"t","r","a","c","k","i","n","g","I","d">>>>],
    \* facebook.com: story_fbid, id, video_id, set
    [domain |-> <<"f","a","c","e","b","o","o","k",".","c","o","m">>,
     params |-> <<<<"s","t","o","r","y","_","f","b","i","d">>,
                 <<"i","d">>,
                 <<"v","i","d","e","o","_","i","d">>,
                 <<"s","e","t">>>>],
    \* instagram.com: igshid
    [domain |-> <<"i","n","s","t","a","g","r","a","m",".","c","o","m">>,
     params |-> <<<<"i","g","s","h","i","d">>>>],
    \* github.com: q, tab, l, t, since, until, type
    [domain |-> <<"g","i","t","h","u","b",".","c","o","m">>,
     params |-> <<<<"q">>,
                 <<"t","a","b">>,
                 <<"l">>,
                 <<"t">>,
                 <<"s","i","n","c","e">>,
                 <<"u","n","t","i","l">>,
                 <<"t","y","p","e">>>>],
    \* docs.google.com: gid, usp
    [domain |-> <<"d","o","c","s",".","g","o","o","g","l","e",".","c","o","m">>,
     params |-> <<<<"g","i","d">>,
                 <<"u","s","p">>>>],
    \* drive.google.com: id
    [domain |-> <<"d","r","i","v","e",".","g","o","o","g","l","e",".","c","o","m">>,
     params |-> <<<<"i","d">>>>],
    \* stackoverflow.com: q, sort, page, tab
    [domain |-> <<"s","t","a","c","k","o","v","e","r","f","l","o","w",".","c","o","m">>,
     params |-> <<<<"q">>,
                 <<"s","o","r","t">>,
                 <<"p","a","g","e">>,
                 <<"t","a","b">>>>],
    \* medium.com: source, id
    [domain |-> <<"m","e","d","i","u","m",".","c","o","m">>,
     params |-> <<<<"s","o","u","r","c","e">>,
                 <<"i","d">>>>],
    \* nytimes.com: searchResultPosition
    [domain |-> <<"n","y","t","i","m","e","s",".","c","o","m">>,
     params |-> <<<<"s","e","a","r","c","h","R","e","s","u","l","t","P","o","s","i","t","i","o","n">>>>],
    \* wikipedia.org: oldid, uselang, title, section
    [domain |-> <<"w","i","k","i","p","e","d","i","a",".","o","r","g">>,
     params |-> <<<<"o","l","d","i","d">>,
                 <<"u","s","e","l","a","n","g">>,
                 <<"t","i","t","l","e">>,
                 <<"s","e","c","t","i","o","n">>>>],
    \* zoom.us: pwd, uname
    [domain |-> <<"z","o","o","m",".","u","s">>,
     params |-> <<<<"p","w","d">>,
                 <<"u","n","a","m","e">>>>],
    \* meet.google.com: authuser
    [domain |-> <<"m","e","e","t",".","g","o","o","g","l","e",".","c","o","m">>,
     params |-> <<<<"a","u","t","h","u","s","e","r">>>>]
  >>

\* Mutant of MatchesCcTld: the third alternative of the predicate never holds
MatchesCcTld_Never(hostname, d) == FALSE

\* hostname.match(new RegExp(...)), lines 82-84: the pattern is a ".", the key
\* with its dots escaped, a "." and two or three lower-case letters at the
\* end of the hostname.
MatchesCcTld(hostname, d) ==
  \E n \in 2..3 :
    /\ Len(hostname) >= Len(d) + 2 + n
    /\ \A i \in (Len(hostname) - n + 1)..Len(hostname) : hostname[i] \in Lower
    /\ EndsWith(SubSeq(hostname, 1, Len(hostname) - n), <<".">> \o d \o <<".">>)

\* The predicate of the find over the table's keys
DomainMatches(hostname, d) ==
  \/ hostname = d
  \/ EndsWith(hostname, <<".">> \o d)
  \/ MatchesCcTld(hostname, d)

\* The position of the first key of the table that the hostname matches, 0
\* when there is none
FirstMatch(hostname, table) ==
  IF \E i \in 1..Len(table) : DomainMatches(hostname, table[i].domain)
  THEN CHOOSE i \in 1..Len(table) :
         /\ DomainMatches(hostname, table[i].domain)
         /\ \A j \in 1..(i - 1) : ~DomainMatches(hostname, table[j].domain)
  ELSE 0

\* The position of the last key of the table that the hostname matches
LastMatch(hostname, table) ==
  IF \E i \in 1..Len(table) : DomainMatches(hostname, table[i].domain)
  THEN CHOOSE i \in 1..Len(table) :
         /\ DomainMatches(hostname, table[i].domain)
         /\ \A j \in (i + 1)..Len(table) : ~DomainMatches(hostname, table[j].domain)
  ELSE 0

\* Mutant of FindDomainKey: the last matching key instead of the first
FindDomainKey_Last(hostname) == LastMatch(hostname, importantParams)

\* Object.keys(importantParams).find(...): the position of the first key that
\* matches, 0 when none does (domainKey is undefined).
FindDomainKey(hostname) == FirstMatch(hostname, importantParams)

\* paramsToKeep.forEach: each policy name the input has is set on the cleaned
\* URL to the value get() returns, and pushed on preservedParams.
RECURSIVE KeepParams(_, _, _, _)
KeepParams(params, paramsToKeep, cleanedParams, preservedParams) ==
  IF paramsToKeep = <<>>
  THEN [cleanedParams |-> cleanedParams, preservedParams |-> preservedParams]
  ELSE LET p == Head(paramsToKeep)
       IN IF ParamsHas(params, p)
          THEN KeepParams(params, Tail(paramsToKeep),
                          ParamsSet(cleanedParams, p, ParamsGet(params, p)),
                          Append(preservedParams, p))
          ELSE KeepParams(params, Tail(paramsToKeep), cleanedParams, preservedParams)

\* What a statement of the try block does: it throws, or the block returns v
Thrown == [thrown |-> TRUE]

Returned(v) == [thrown |-> FALSE, value |-> v]

\* if (urlObj.hash) cleaned.hash = urlObj.hash
CopyHash(cleaned, hash) == IF hash # <<>> THEN SetHash(cleaned, hash) ELSE cleaned

\* Lines 98-100, after the forEach: the kept parameters are the cleaned URL's
\* query, the hash is copied, the URL is serialized
ReturnCleaned(urlObj, cleaned, kept) ==
  Returned([url |-> Href(CopyHash(WithSearchParams(cleaned, kept.cleanedParams),
                                  Hash(urlObj))),
            preservedParams |-> kept.preservedParams])

\* The same without line 98
ReturnCleaned_NoHash(urlObj, cleaned, kept) ==
  Returned([url |-> Href(WithSearchParams(cleaned, kept.cleanedParams)),
            preservedParams |-> kept.preservedParams])

\* Mutant of Rebuild: the hash is not copied onto the cleaned URL
Rebuild_NoHash(urlObj, paramsToKeep, cleaned) ==
  IF ~cleaned.ok THEN Thrown
  ELSE ReturnCleaned_NoHash(urlObj, cleaned,
                            KeepParams(SearchParams(urlObj), paramsToKeep,
                                       SearchParams(cleaned), <<>>))

\* Lines 89-100, given what new URL(origin + pathname) is: the constructor
\* throws when the sum is no URL.
Rebuild(urlObj, paramsToKeep, cleaned) ==
  IF ~cleaned.ok THEN Thrown
  ELSE ReturnCleaned(urlObj, cleaned,
                     KeepParams(SearchParams(urlObj), paramsToKeep,
                                SearchParams(cleaned), <<>>))

\* The matched branch (lines 87-101)
CleanMatched(urlObj, paramsToKeep) ==
  Rebuild(urlObj, paramsToKeep, ParseURL(Origin(urlObj) \o Pathname(urlObj)))

\* Mutant of CleanUnmatched: the query is not stripped
CleanUnmatched_KeepsQuery(urlObj) ==
  Returned([url |-> Origin(urlObj) \o Pathname(urlObj)
                      \o (IF urlObj.hasQuery THEN <<"?">> \o urlObj.query ELSE <<>>)
                      \o Hash(urlObj),
            preservedParams |-> <<>>])

\* The unmatched branch (lines 103-107): all parameters stripped, the hash kept
CleanUnmatched(urlObj) ==
  Returned([url |-> Origin(urlObj) \o Pathname(urlObj) \o Hash(urlObj),
            preservedParams |-> <<>>])

\* Lines 87-107, given domainKey
CleanByKey(urlObj, domainKey) ==
  IF domainKey # 0
  THEN CleanMatched(urlObj, importantParams[domainKey].params)
  ELSE CleanUnmatched(urlObj)

\* Lines 21-107, given what new URL(raw) is: the constructor throws when raw
\* is no URL
CleanParsed(urlObj) ==
  IF ~urlObj.ok THEN Thrown
  ELSE CleanByKey(urlObj, FindDomainKey(Hostname(urlObj)))

\* The try block (lines 19-108)
TryBlock(raw) == CleanParsed(ParseURL(raw))

\* Mutant of Fallback: an empty url instead of the input
Fallback_Empty(raw) == [url |-> <<>>, preservedParams |-> <<>>]

\* The catch block (lines 108-111): malformed input is returned unchanged
Fallback(raw) == [url |-> raw, preservedParams |-> <<>>]

\* try ... catch: what the try block returned, or the catch block's answer
TryCatch(tried, raw) == IF tried.thrown THEN Fallback(raw) ELSE tried.value

cleanUrl(raw) == TryCatch(TryBlock(raw), raw)

(* ------------------------------------------------------------------ *)
(* Inputs                                                              *)
(* ------------------------------------------------------------------ *)

\* The longest query string an input carries, in parameters
MaxParams == 2

\* The clipboard writes and copied-reset timers that may be outstanding at once
MaxPending == 2

\* Scheme, host and path of the inputs: every matching rule, a host no key
\* matches, hosts that two keys or none match, a scheme without tuple origin,
\* an opaque path, and strings that are no URL.
Bases ==
  { <<"h","t","t","p","s",":","/","/","y","o","u","t","u","b","e",".","c","o","m","/","w","a","t","c","h">>,
    <<"h","t","t","p","s",":","/","/","m",".","y","o","u","t","u","b","e",".","c","o","m","/","w","a","t","c","h">>,
    <<"h","t","t","p","s",":","/","/","w","w","w",".","y","o","u","t","u","b","e",".","c","o","m",".","b","r","/","w","a","t","c","h">>,
    <<"H","T","T","P","S",":","/","/","Y","o","u","T","u","b","e",".","c","o","m">>,
    <<"h","t","t","p","s",":","/","/","y","o","u","t","u",".","b","e","/","x">>,
    <<"h","t","t","p","s",":","/","/","e","x","a","m","p","l","e",".","c","o","m","/","p","a","g","e">>,
    <<"h","t","t","p","s",":","/","/","n","o","t","y","o","u","t","u","b","e",".","c","o","m","/","w","a","t","c","h">>,
    <<"h","t","t","p","s",":","/","/","y","o","u","t","u","b","e",".","c","o","m",".","e","v","i","l","/","w","a","t","c","h">>,
    <<"h","t","t","p","s",":","/","/","y","o","u","t","u","b","e",".","c","o","m",".","b","r","/","w","a","t","c","h">>,
    <<"h","t","t","p","s",":","/","/","m","a","p","s",".","g","o","o","g","l","e",".","c","o","m","/","m","a","p","s">>,
    <<"h","t","t","p","s",":","/","/","g","o","o","g","l","e",".","c","o",".","u","k","/","s","e","a","r","c","h">>,
    <<"h","t","t","p","s",":","/","/","w","w","w",".","g","o","o","g","l","e",".","c","o",".","u","k","/","s","e","a","r","c","h">>,
    <<"h","t","t","p","s",":","/","/","w","w","w",".","g","o","o","g","l","e",".","c","o","m",".","b","r","/","s","e","a","r","c","h">>,
    <<"g","i","t",":","/","/","g","i","t","h","u","b",".","c","o","m","/","r","e","p","o">>,
    <<"g","i","t",":","/","/","e","x","a","m","p","l","e",".","c","o","m","/","r","e","p","o">>,
    <<"u","r","n",":","i","s","b","n",":","1">>,
    <<"h","t","t","p","s",":","/","/","x","n","-","-","a","/","x">>,
    <<"h","t","t","p","s",":","/","/","x","n","-","-","9","c","a",".","y","o","u","t","u","b","e",".","c","o","m","/","w","a","t","c","h">>,
    <<"b","l","o","b",":","h","t","t","p","s",":","/","/","e","x","a","m","p","l","e",".","c","o","m","/","x">>,
    <<"n","o","t"," ","a"," ","u","r","l">>,
    <<"y","o","u","t","u","b","e",".","c","o","m","/","w","a","t","c","h">> }

ParamNames == {<<"v">>, <<"t">>, <<"q">>, <<"u","t","m","_","s","o","u","r","c","e">>}

ParamValues == {<<"1">>, <<"a","%","2","0","b">>}

Fragments == {<<>>, <<"#","t","o","p">>, <<"#","a"," ","b">>}

Pairs == [name : ParamNames, value : ParamValues]

Queries == UNION {[1..n -> Pairs] : n \in 0..MaxParams}

\* "?" name "=" value "&" ... : the query string of a sequence of pairs
QueryString(pairs) ==
  IF pairs = <<>> THEN <<>>
  ELSE <<"?">> \o Join([i \in 1..Len(pairs) |->
                          pairs[i].name \o <<"=">> \o pairs[i].value], <<"&">>)

\* For every key of the table, the https URL of that host with every
\* parameter of the key's own list and one tracking parameter
KeyInputs ==
  {<<"h","t","t","p","s",":","/","/">> \o importantParams[i].domain \o <<"/">>
     \o QueryString([j \in 1..Len(importantParams[i].params) |->
                       [name |-> importantParams[i].params[j], value |-> <<"1">>]])
     \o <<"&","u","t","m","_","s","o","u","r","c","e","=","1">> : i \in 1..Len(importantParams)}

Inputs ==
  {b \o QueryString(q) \o f : b \in Bases, q \in Queries, f \in Fragments} \cup KeyInputs

\* What the user types or pastes into the input field, or has on the clipboard
Typed ==
  { <<>>,
    <<" ">>,
    <<"h","t","t","p","s",":","/","/","y","o","u","t","u","b","e",".","c","o","m","/","w","a","t","c","h","?","v","=","1","&","u","t","m","_","s","o","u","r","c","e","=","1">>,
    <<" ","h","t","t","p","s",":","/","/","e","x","a","m","p","l","e",".","c","o","m","/","p","a","g","e","?","u","t","m","_","s","o","u","r","c","e","=","1","#","t","o","p"," ">>,
    <<"h","t","t","p","s",":","/","/","m",".","y","o","u","t","u","b","e",".","c","o","m","/","w","a","t","c","h","?","t","=","1","&","v","=","1","&","v","=","a","%","2","0","b">>,
    <<"g","i","t",":","/","/","g","i","t","h","u","b",".","c","o","m","/","r","e","p","o","?","q","=","1","&","u","t","m","_","s","o","u","r","c","e","=","1">>,
    <<"n","o","t"," ","a"," ","u","r","l">> }

(* ------------------------------------------------------------------ *)
(* State                                                               *)
(* ------------------------------------------------------------------ *)

VARIABLES
  \* a call of cleanUrl and a second call on its result
  raw,        \* the argument
  pc,         \* "start", "cleaned" (cleanUrl returned), "recleaned"
  domainKey,  \* the local domainKey of the call: a position of the table, 0 for undefined
  result,     \* what cleanUrl(raw) returned
  again,      \* what cleanUrl(result.url) returned
  \* the component App
  url,        \* signal url
  cleaned,    \* signal cleaned
  removed,    \* signal removed
  copied,     \* signal copied
  clipboard,  \* the system clipboard's text
  mounted,    \* onMount's clipboard read has settled
  writes,     \* the texts of the writeText calls that have not settled
  timers,     \* the pending setTimeout callbacks that reset copied
  invocation  \* the last call of handleClean: its trimmed input and how it ended

cleanVars == <<raw, pc, domainKey, result, again>>

appVars == <<url, cleaned, removed, copied, clipboard, mounted, writes, timers, invocation>>

vars == <<raw, pc, domainKey, result, again,
          url, cleaned, removed, copied, clipboard, mounted, writes, timers, invocation>>

NoResult == [url |-> <<>>, preservedParams |-> <<>>]

NoInvocation == [raw |-> <<>>, outcome |-> "none", written |-> <<>>]

CleanIdle ==
  /\ raw = <<>>
  /\ pc = "start"
  /\ domainKey = 0
  /\ result = NoResult
  /\ again = NoResult

\* createSignal(""), createSignal(""), createSignal(0), createSignal(false)
AppIdle ==
  /\ url = <<>>
  /\ cleaned = <<>>
  /\ removed = 0
  /\ copied = FALSE
  /\ mounted = FALSE
  /\ writes = <<>>
  /\ timers = 0
  /\ invocation = NoInvocation

(* ------------------------------------------------------------------ *)
(* cleanUrl as a function: one call, and a call on its result          *)
(* ------------------------------------------------------------------ *)

InitCleanUrl ==
  /\ raw \in Inputs
  /\ pc = "start"
  /\ domainKey = 0
  /\ result = NoResult
  /\ again = NoResult
  /\ AppIdle
  /\ clipboard = <<>>

\* The value of the local domainKey when cleanUrl(s) reaches line 85
KeyOfParsed(urlObj) == IF urlObj.ok THEN FindDomainKey(Hostname(urlObj)) ELSE 0

DomainKeyOf(s) == KeyOfParsed(ParseURL(s))

CallCleanUrl ==
  /\ pc = "start"
  /\ pc' = "cleaned"
  /\ domainKey' = DomainKeyOf(raw)
  /\ result' = cleanUrl(raw)
  /\ UNCHANGED <<raw, again>>
  /\ UNCHANGED appVars

CallCleanUrlAgain ==
  /\ pc = "cleaned"
  /\ pc' = "recleaned"
  /\ again' = cleanUrl(result.url)
  /\ UNCHANGED <<raw, domainKey, result>>
  /\ UNCHANGED appVars

NextCleanUrl == CallCleanUrl \/ CallCleanUrlAgain

SpecCleanUrl == InitCleanUrl /\ [][NextCleanUrl]_vars

(* ------------------------------------------------------------------ *)
(* The component App: its signals and handlers                         *)
(* ------------------------------------------------------------------ *)

\* The component is mounted with some text on the system clipboard
Init == CleanIdle /\ AppIdle /\ clipboard \in Typed

\* onMount, after the await: the clipboard's text becomes the url when it is
\* a URL.
MountReadText ==
  /\ ~mounted
  /\ mounted' = TRUE
  /\ url' = IF isValidUrl(clipboard) THEN clipboard ELSE url
  /\ UNCHANGED <<cleaned, removed, copied, clipboard, writes, timers, invocation>>
  /\ UNCHANGED cleanVars

\* onMount, readText rejected: the permission error is ignored
MountReadDenied ==
  /\ ~mounted
  /\ mounted' = TRUE
  /\ UNCHANGED <<url, cleaned, removed, copied, clipboard, writes, timers, invocation>>
  /\ UNCHANGED cleanVars

\* The value of the <input type="url"> field for a text typed into it or
\* bound to it: the field strips leading and trailing blanks
FieldValue(text) == Trim(text)

\* onInput={(e) => setUrl(e.currentTarget.value)}: s is the text typed
OnInput(s) ==
  /\ url' = FieldValue(s)
  /\ UNCHANGED <<cleaned, removed, copied, clipboard, mounted, writes, timers, invocation>>
  /\ UNCHANGED cleanVars

\* new URL(raw).searchParams.size
OriginalParamCount(parsed) == ParamsSize(SearchParams(parsed))

\* Lines 172-194, for a non-empty input, given what cleanUrl(raw) returned
\* and what new URL(raw) is: cleaned is set, then the constructor either
\* throws (the promise rejects, the rest of the handler is skipped) or removed
\* is set and writeText is called.
CleanAndCopy(input, res, parsed) ==
  IF ~parsed.ok
  THEN /\ cleaned' = res.url
       /\ invocation' = [raw |-> input, outcome |-> "threw", written |-> <<>>]
       /\ UNCHANGED <<removed, writes>>
  ELSE /\ Len(writes) + timers < MaxPending
       /\ cleaned' = res.url
       /\ removed' = OriginalParamCount(parsed) - Len(res.preservedParams)
       /\ writes' = Append(writes, res.url)
       /\ invocation' = [raw |-> input, outcome |-> "writing", written |-> res.url]

\* handleClean up to its await: an empty input returns at once
HandleClean ==
  LET input == Trim(url)
  IN /\ IF input = <<>>
        THEN /\ invocation' = [raw |-> input, outcome |-> "returned", written |-> <<>>]
             /\ UNCHANGED <<cleaned, removed, writes>>
        ELSE CleanAndCopy(input, cleanUrl(input), ParseURL(input))
     /\ UNCHANGED <<url, copied, clipboard, mounted, timers>>
     /\ UNCHANGED cleanVars

\* Mutant of FieldValid: the form does not validate its field
FieldValid_NoValidate(value) == TRUE

\* Constraint validation of the <input type="url"> field: a value that is
\* not empty and is no URL is a type mismatch
FieldValid(value) == value = <<>> \/ ParseURL(value).ok

\* <form onSubmit={handleClean}>: the button or Enter submits the form; the
\* submit event is dispatched, and handleClean runs, only when the field is
\* valid
Submit ==
  /\ FieldValid(FieldValue(url))
  /\ HandleClean

\* writeText resolved: setCopied(true) and a timer to reset it
WriteTextResolved ==
  /\ writes # <<>>
  /\ clipboard' = Head(writes)
  /\ writes' = Tail(writes)
  /\ copied' = TRUE
  /\ timers' = timers + 1
  /\ UNCHANGED <<url, cleaned, removed, mounted, invocation>>
  /\ UNCHANGED cleanVars

\* writeText rejected: "clipboard write failed" is logged
WriteTextRejected ==
  /\ writes # <<>>
  /\ writes' = Tail(writes)
  /\ UNCHANGED <<url, cleaned, removed, copied, clipboard, mounted, timers, invocation>>
  /\ UNCHANGED cleanVars

\* setTimeout(() => setCopied(false), 1200)
CopiedTimeout ==
  /\ timers > 0
  /\ timers' = timers - 1
  /\ copied' = FALSE
  /\ UNCHANGED <<url, cleaned, removed, clipboard, mounted, writes, invocation>>
  /\ UNCHANGED cleanVars

Next ==
  \/ MountReadText
  \/ MountReadDenied
  \/ \E s \in Typed : OnInput(s)
  \/ Submit
  \/ WriteTextResolved
  \/ WriteTextRejected
  \/ CopiedTimeout

Spec == Init /\ [][Next]_vars

(* ------------------------------------------------------------------ *)
(* Properties                                                          *)
(* ------------------------------------------------------------------ *)

\* The names and the values of a parameter list, and the values of one name
NamesOf(list) == [i \in 1..Len(list) |-> list[i].name]

ValuesOf(list, name) ==
  LET hits == SelectSeq(list, LAMBDA e : e.name = name)
  IN [i \in 1..Len(hits) |-> hits[i].value]

\* The query parameters of a string: those of its URL, none when it is no URL
EntriesOf(s) == IF ParseURL(s).ok THEN SearchParams(ParseURL(s)) ELSE <<>>

\* The text after the first "#" of a string
RawFragment(s) == Drop(s, FindAny(s, {"#"}))

\* The parameter names of the policy at a table position (none at 0)
PolicyOf(key) == IF key = 0 THEN <<>> ELSE importantParams[key].params

\* The call rebuilt a URL from its input (lines 89-107) and returned it from
\* the try block, rather than from the catch block
Rebuilt == pc # "start" /\ ~TryBlock(raw).thrown

(* C1: cleanUrl never throws: every call returns a result with a url and a
   preservedParams field, and for an input the URL parser rejects the result
   is the input itself with an empty preservedParams. *)
C1_NeverThrowsEchoesMalformed ==
  pc # "start" =>
    /\ DOMAIN result = {"url", "preservedParams"}
    /\ ~ParseURL(raw).ok => result = [url |-> raw, preservedParams |-> <<>>]

C1_Witness ==
  /\ pc = "cleaned"
  /\ raw = <<"n","o","t"," ","a"," ","u","r","l">>
  /\ result = [url |-> <<"n","o","t"," ","a"," ","u","r","l">>, preservedParams |-> <<>>]

(* C2: for every input that parses as a URL of any scheme and whose hostname
   matches a policy key, every query parameter name of the returned url is
   one of the matched policy's names: any other parameter of the input, such
   as utm_source, is absent from it. *)
C2_MatchedUrlKeepsOnlyPolicyParams ==
  (pc # "start" /\ ParseURL(raw).ok /\ domainKey # 0) =>
    SeqRange(NamesOf(EntriesOf(result.url))) \subseteq SeqRange(PolicyOf(domainKey))

(* C3: for every input that parses as a URL and whose hostname matches no
   key, the returned url is origin + pathname + hash, it has no "?" outside
   the fragment, and preservedParams is empty; the spec's example, with this
   model's parameters, yields "https://example.com/page". *)
C3_UnmatchedUrlStripsQuery ==
  (pc # "start" /\ ParseURL(raw).ok /\ domainKey = 0) =>
    /\ result.url = Origin(ParseURL(raw)) \o Pathname(ParseURL(raw)) \o Hash(ParseURL(raw))
    /\ FindAny(result.url, {"?"}) >= FindAny(result.url, {"#"})
    /\ result.preservedParams = <<>>
    /\ raw = <<"h","t","t","p","s",":","/","/","e","x","a","m","p","l","e",".","c","o","m","/","p","a","g","e","?","u","t","m","_","s","o","u","r","c","e","=","1","&","q","=","1">> => result.url = <<"h","t","t","p","s",":","/","/","e","x","a","m","p","l","e",".","c","o","m","/","p","a","g","e">>

C3_Witness ==
  /\ pc = "cleaned"
  /\ raw = <<"h","t","t","p","s",":","/","/","e","x","a","m","p","l","e",".","c","o","m","/","p","a","g","e","?","u","t","m","_","s","o","u","r","c","e","=","1","&","q","=","1","#","t","o","p">>
  /\ result = [url |-> <<"h","t","t","p","s",":","/","/","e","x","a","m","p","l","e",".","c","o","m","/","p","a","g","e","#","t","o","p">>, preservedParams |-> <<>>]

(* C4, as stated, on the inputs that are rebuilt under a tuple origin: for
   every input with a non-empty fragment, the returned url ends with "#" and
   that fragment as it is written in the input. *)
C4_FragmentVerbatim ==
  (Rebuilt /\ ParseURL(raw).scheme \in SpecialSchemes /\ RawFragment(raw) # <<>>) =>
    EndsWith(result.url, <<"#">> \o RawFragment(raw))

(* C4, amended: when the input is parsed and rebuilt and its URL has a
   non-empty hash, the returned url ends with that hash, which is the input's
   fragment percent-encoded by the URL parser; when the call returns from the
   catch block, the url is the input, fragment included. *)
C4_FragmentAsParsed ==
  (pc # "start" /\ RawFragment(raw) # <<>>) =>
    IF Rebuilt
    THEN /\ Hash(ParseURL(raw)) = <<"#">> \o PercentEncode(RawFragment(raw), FragmentEncodeSet)
         /\ EndsWith(result.url, Hash(ParseURL(raw)))
    ELSE result.url = raw

C4_Witness ==
  /\ pc = "cleaned"
  /\ raw = <<"h","t","t","p","s",":","/","/","y","o","u","t","u","b","e",".","c","o","m","/","w","a","t","c","h","?","v","=","1","#","a"," ","b">>
  /\ result.url = <<"h","t","t","p","s",":","/","/","y","o","u","t","u","b","e",".","c","o","m","/","w","a","t","c","h","?","v","=","1","#","a","%","2","0","b">>

(* C5: for every input, preservedParams is the matched policy's list filtered
   to the names that occur as query parameters of the input (empty when no
   key matches), without duplicates, and the query parameters of the returned
   url follow in that same, policy-table, order. *)
C5_PreservedParamsArePolicyFiltered ==
  pc # "start" =>
    LET present == SeqRange(NamesOf(EntriesOf(raw)))
        expected == SelectSeq(PolicyOf(domainKey), LAMBDA p : p \in present)
    IN /\ result.preservedParams = expected
       /\ Cardinality(SeqRange(result.preservedParams)) = Len(result.preservedParams)
       /\ domainKey # 0 => NamesOf(EntriesOf(result.url)) = expected

(* C6: cleanUrl is idempotent on every input string: the call on its own
   result returns the same url and the same preservedParams. *)
C6_Idempotent ==
  pc = "recleaned" => again = result

\* The three ways the claim lets a hostname h match a key d
ClaimedMatch(h, d) ==
  \/ h = d
  \/ Len(h) > Len(d) /\ SubSeq(h, Len(h) - Len(d), Len(h)) = <<".">> \o d
  \/ \E n \in {2, 3} :
       /\ Len(h) >= Len(d) + n + 2
       /\ SubSeq(h, Len(h) - n - Len(d) - 1, Len(h) - n) = <<".">> \o d \o <<".">>
       /\ \A i \in (Len(h) - n + 1)..Len(h) : h[i] \in Lower

(* C9: domainKey is the first key of the table, in declaration order, that
   the hostname equals, or ends with after a ".", or ends with after a "."
   and before a "." and 2 to 3 lower-case letters; undefined when there is
   none; every preserved parameter is a name of that key's list; the host
   "m.youtube.com" selects "youtube.com". *)
C9_FirstMatchingKeyIsSelected ==
  (pc # "start" /\ ParseURL(raw).ok) =>
    LET h == Hostname(ParseURL(raw))
        matching == {i \in 1..Len(importantParams) : ClaimedMatch(h, importantParams[i].domain)}
    IN /\ domainKey = IF matching = {} THEN 0
                      ELSE CHOOSE i \in matching : \A j \in matching : i <= j
       /\ SeqRange(result.preservedParams) \subseteq SeqRange(PolicyOf(domainKey))
       /\ h = <<"m",".","y","o","u","t","u","b","e",".","c","o","m">> =>
            domainKey # 0 /\ importantParams[domainKey].domain = <<"y","o","u","t","u","b","e",".","c","o","m">>

C9_Witness ==
  /\ pc = "cleaned"
  /\ raw = <<"h","t","t","p","s",":","/","/","m",".","y","o","u","t","u","b","e",".","c","o","m","/","w","a","t","c","h","?","t","=","1","&","v","=","1">>
  /\ importantParams[domainKey].domain = <<"y","o","u","t","u","b","e",".","c","o","m">>
  /\ result.preservedParams = <<<<"v">>, <<"t">>>>

(* C10, as stated, on the inputs whose url is rebuilt: when the input repeats
   a parameter the matched policy keeps, the returned url has that parameter
   once, with the last of the input's values for it. *)
C10_LastValueWins ==
  (Rebuilt /\ domainKey # 0) =>
    \A i \in 1..Len(PolicyOf(domainKey)) :
      LET p == PolicyOf(domainKey)[i]
          given == ValuesOf(EntriesOf(raw), p)
      IN Len(given) >= 2 => ValuesOf(EntriesOf(result.url), p) = <<given[Len(given)]>>

(* C10, amended: when the input repeats a parameter the matched policy keeps,
   the rebuilt url has that parameter once, with the first of the input's
   values for it (the one get() returns); a call that returns from the catch
   block returns the input, repetitions included. *)
C10_FirstValueWins ==
  (pc # "start" /\ ParseURL(raw).ok /\ domainKey # 0) =>
    IF Rebuilt
    THEN \A i \in 1..Len(PolicyOf(domainKey)) :
           LET p == PolicyOf(domainKey)[i]
               given == ValuesOf(EntriesOf(raw), p)
           IN Len(given) >= 2 => ValuesOf(EntriesOf(result.url), p) = <<given[1]>>
    ELSE result.url = raw

C10_Witness ==
  /\ pc = "cleaned"
  /\ raw = <<"h","t","t","p","s",":","/","/","y","o","u","t","u","b","e",".","c","o","m","/","w","a","t","c","h","?","v","=","1","&","v","=","a","%","2","0","b">>
  /\ result.url = <<"h","t","t","p","s",":","/","/","y","o","u","t","u","b","e",".","c","o","m","/","w","a","t","c","h","?","v","=","1">>

(* C7: every call of handleClean whose trimmed input is not empty reaches the
   clipboard step: cleaned is cleanUrl(input).url and writeText was called
   with that url. *)
C7_HandleCleanReachesClipboard ==
  (invocation.outcome # "none" /\ invocation.raw # <<>>) =>
    /\ invocation.outcome = "writing"
    /\ cleaned = cleanUrl(invocation.raw).url
    /\ invocation.written = cleaned

C7_Witness ==
  /\ invocation.outcome = "writing"
  /\ invocation.raw = <<"h","t","t","p","s",":","/","/","y","o","u","t","u","b","e",".","c","o","m","/","w","a","t","c","h","?","v","=","1","&","u","t","m","_","s","o","u","r","c","e","=","1">>
  /\ cleaned = <<"h","t","t","p","s",":","/","/","y","o","u","t","u","b","e",".","c","o","m","/","w","a","t","c","h","?","v","=","1">>
  /\ invocation.written = cleaned
  /\ writes = <<cleaned>>

\* How many entries of given are not entries of shown, counted with
\* multiplicity
NotAppearing(given, shown) ==
  Cardinality({i \in 1..Len(given) :
                 Cardinality({j \in 1..i : given[j] = given[i]})
                   > Cardinality({j \in 1..Len(shown) : shown[j] = given[i]})})

(* C8: after every call of handleClean whose trimmed input is not empty,
   removed is not negative and is the number of query parameters of the input
   that do not appear in the displayed cleaned url. *)
C8_RemovedCountsDroppedParams ==
  (invocation.outcome # "none" /\ invocation.raw # <<>>) =>
    /\ removed >= 0
    /\ removed = NotAppearing(EntriesOf(invocation.raw), EntriesOf(cleaned))

\* The position of a key in the table
KeyOf(d) == CHOOSE i \in 1..Len(importantParams) : importantParams[i].domain = d

CoUkHosts == {<<"g","o","o","g","l","e",".","c","o",".","u","k">>, <<"w","w","w",".","g","o","o","g","l","e",".","c","o",".","u","k">>}

(* C11, as stated: for the hosts "google.co.uk" and "www.google.co.uk" the
   key "google.com" is selected and the q parameter of an input that has one
   is preserved: it is in preservedParams and in the returned url. *)
C11_CoUkHostMatchesGoogleCom ==
  (/\ pc # "start"
   /\ ParseURL(raw).ok
   /\ Hostname(ParseURL(raw)) \in CoUkHosts
   /\ <<"q">> \in SeqRange(NamesOf(EntriesOf(raw)))) =>
    /\ domainKey = KeyOf(<<"g","o","o","g","l","e",".","c","o","m">>)
    /\ <<"q">> \in SeqRange(result.preservedParams)
    /\ <<"q">> \in SeqRange(NamesOf(EntriesOf(result.url)))

(* C11, amended: the country-code rule needs the whole key, ".com" included,
   before the country code. The host "www.google.com.br" selects the key
   "google.com", and a rebuilt url preserves a q parameter of the input; the
   hosts "google.co.uk" and "www.google.co.uk" select no key, so the returned
   url has no query parameter and preservedParams is empty. *)
C11_CcTldFollowsWholeKey ==
  (pc # "start" /\ ParseURL(raw).ok) =>
    LET h == Hostname(ParseURL(raw))
    IN /\ h \in CoUkHosts =>
            /\ domainKey = 0
            /\ result.preservedParams = <<>>
            /\ EntriesOf(result.url) = <<>>
       /\ h = <<"w","w","w",".","g","o","o","g","l","e",".","c","o","m",".","b","r">> =>
            /\ domainKey = KeyOf(<<"g","o","o","g","l","e",".","c","o","m">>)
            /\ (Rebuilt /\ <<"q">> \in SeqRange(NamesOf(EntriesOf(raw)))) =>
                 /\ <<"q">> \in SeqRange(result.preservedParams)
                 /\ <<"q">> \in SeqRange(NamesOf(EntriesOf(result.url)))

C11_Witness ==
  /\ pc = "cleaned"
  /\ raw = <<"h","t","t","p","s",":","/","/","w","w","w",".","g","o","o","g","l","e",".","c","o",".","u","k","/","s","e","a","r","c","h","?","q","=","1","&","u","t","m","_","s","o","u","r","c","e","=","1">>
  /\ result = [url |-> <<"h","t","t","p","s",":","/","/","w","w","w",".","g","o","o","g","l","e",".","c","o",".","u","k","/","s","e","a","r","c","h">>, preservedParams |-> <<>>]

\* The query of a string as it is written: the text after the first "?" and
\* before the first "#", and its pieces between "&"
RawQuery(s) ==
  LET beforeHash == SubSeq(s, 1, FindAny(s, {"#"}) - 1)
  IN Drop(beforeHash, FindAny(beforeHash, {"?"}))

RawPairsOf(s) == Split(RawQuery(s), "&")

\* The written name=value pieces of a string for the parameter name p
PairsNamed(s, p) == SelectSeq(RawPairsOf(s), LAMBDA x : StartsWith(x, p \o <<"=">>))

(* C12, as stated: every kept parameter is written in the returned url, and
   its name=value text there is, character for character, a name=value text
   of the input. *)
C12_KeptValueVerbatim ==
  pc # "start" =>
    \A i \in 1..Len(result.preservedParams) :
      LET p == result.preservedParams[i]
      IN /\ PairsNamed(result.url, p) # <<>>
         /\ SeqRange(PairsNamed(result.url, p)) \subseteq SeqRange(PairsNamed(raw, p))

\* The text the claim, as amended, gives to a decoded name or value
ReencodedText(v) ==
  Concat([i \in 1..Len(v) |->
            IF v[i] = " " THEN <<"+">>
            ELSE IF v[i] \in AlphaNum \cup {"*", "-", ".", "_"} THEN <<v[i]>>
            ELSE PercentEncodeChar(v[i])])

(* C12, amended: every kept parameter is written once in the returned url;
   its value there decodes to the value URLSearchParams decoded from the
   parameter's first occurrence in the input, and its text is the name and
   that value serialized anew: a space is "+", every character but
   alphanumerics and "*", "-", ".", "_" is a percent escape. *)
C12_KeptValueReencoded ==
  pc # "start" =>
    \A i \in 1..Len(result.preservedParams) :
      LET p == result.preservedParams[i]
          v == ValuesOf(EntriesOf(raw), p)[1]
      IN /\ ValuesOf(EntriesOf(result.url), p) = <<v>>
         /\ PairsNamed(result.url, ReencodedText(p))
              = <<ReencodedText(p) \o <<"=">> \o ReencodedText(v)>>

C12_Witness ==
  /\ pc = "cleaned"
  /\ raw = <<"h","t","t","p","s",":","/","/","y","o","u","t","u","b","e",".","c","o","m","/","w","a","t","c","h","?","v","=","a","%","2","0","b","&","u","t","m","_","s","o","u","r","c","e","=","1">>
  /\ result = [url |-> <<"h","t","t","p","s",":","/","/","y","o","u","t","u","b","e",".","c","o","m","/","w","a","t","c","h","?","v","=","a","+","b">>, preservedParams |-> <<<<"v">>>>]

(* C13: every key of the table is selectable: for an http or https input
   whose hostname is a key of the table, that key's own list is applied:
   preservedParams is that list filtered to the parameters of the input, and
   these are the parameters of the returned url; no earlier key takes the
   host. *)
C13_EveryKeySelectable ==
  (pc # "start" /\ ParseURL(raw).ok /\ ParseURL(raw).scheme \in {<<"h","t","t","p">>, <<"h","t","t","p","s">>}) =>
    \A i \in 1..Len(importantParams) :
      Hostname(ParseURL(raw)) = importantParams[i].domain =>
        LET own == SelectSeq(importantParams[i].params,
                             LAMBDA p : p \in SeqRange(NamesOf(EntriesOf(raw))))
        IN /\ result.preservedParams = own
           /\ NamesOf(EntriesOf(result.url)) = own

====
